---- MODULE Spec2Model ----
(***************************************************************************)
(* Workflow execution engine of app.py: the port-link data model, the      *)
(* dependency map (build_input_map), the topological scheduler             *)
(* (topo_sort), input resolution (resolve_input), the execution context    *)
(* with its log (node_log) and the fail-fast executor (execute_workflow)   *)
(* behind the /run endpoint (run_workflow_api).                            *)
(*                                                                         *)
(* Python dicts are functions; a dict whose iteration order is observed    *)
(* (indeg in topo_sort) carries its key order in a separate sequence.      *)
(* None is the string NoneVal; an exception is a record with raised=TRUE.  *)
(***************************************************************************)
EXTENDS Integers, Sequences, FiniteSets, TLC

VARIABLES
  workflow,       \* the workflow submitted (nodes and links)
  tpc,      \* topo_sort: position ("idle", "start", "loop", "returned", "raised")
  tst,      \* topo_sort: locals nodes_by_id, indeg, adj, q, ordered
  tres,     \* topo_sort: the value returned or the exception raised
  rpc,      \* resolver: position ("idle", "start", "built")
  rmap,     \* resolver: the dependency map built from workflow.links
  rctx,     \* resolver: the execution context it reads
  rres,     \* resolver: the last resolve_input call and its value
  run,      \* the execution of execute_workflow behind the current /run request
  history,  \* the finished executions of earlier requests, oldest first
  files,    \* WORKSPACE: path -> content of the files written
  conc      \* concurrent /run requests: for each its workflow and its execution

topoVars == <<tpc, tst, tres>>
resVars == <<rpc, rmap, rctx, rres>>
execVars == <<run, history, files>>
concVars == <<conc>>
vars == <<workflow, topoVars, resVars, execVars, concVars>>

----------------------------------------------------------------------------
(* Bounds of the explored inputs *)

TopoMaxNodes == 3
TopoMaxLinks == 2

(* Node ids that workflows declare, in the order new ids are introduced,   *)
(* and one id that no workflow declares (a dangling link endpoint).        *)
IdOrder == <<"A", "B", "C", "D", "E">>
Ghost == "X"

(* The first n ids: those that workflows of at most n nodes declare *)
FirstIds(n) == {IdOrder[i] : i \in 1..(IF n < Len(IdOrder) THEN n ELSE Len(IdOrder))}

NoneVal == "<None>"
EmptyDict == [k \in {} |-> NoneVal]

GraphError == "Grafo con ciclos o links invalidos. No se puede ejecutar."

----------------------------------------------------------------------------
(* Helpers *)

SeqsUpTo(S, n) == UNION {[1..k -> S] : k \in 0..n}

Range(s) == {s[i] : i \in 1..Len(s)}

(* First position of x in s, 0 when x does not occur *)
IndexOf(s, x) ==
  IF x \in Range(s)
  THEN CHOOSE i \in 1..Len(s) : s[i] = x /\ \A j \in 1..(i-1) : s[j] # x
  ELSE 0

Max(S) == CHOOSE m \in S : \A k \in S : k <= m

(* dict.get(key, default) *)
DictGet(d, k, default) == IF k \in DOMAIN d THEN d[k] ELSE default

(* Id sequences up to renaming of ids: a position holds an id already used *)
(* or the next unused id of IdOrder.                                       *)
IdSeqs(n) ==
  {s \in SeqsUpTo(FirstIds(n), n) :
     \A i \in 1..Len(s) :
       \E j \in 1..Len(IdOrder) :
         /\ s[i] = IdOrder[j]
         /\ j <= Cardinality({s[k] : k \in 1..(i-1)}) + 1}

----------------------------------------------------------------------------
(* topo_sort *)

(* Key order of a dict comprehension over workflow.nodes: first occurrence *)
RECURSIVE DictKeys(_)
DictKeys(nodes) ==
  IF nodes = <<>> THEN <<>>
  ELSE LET rest == DictKeys(SubSeq(nodes, 1, Len(nodes) - 1))
           last == nodes[Len(nodes)].id
       IN IF last \in Range(rest) THEN rest ELSE Append(rest, last)

(* nodes_by_id = {n.id: n for n in workflow.nodes}: the last node of an id *)
NodesById(nodes) ==
  [k \in {nodes[i].id : i \in 1..Len(nodes)} |->
     nodes[Max({i \in 1..Len(nodes) : nodes[i].id = k})]]

(* AddLink with the edge recorded backwards *)
AddLinkReversed(st, link) ==
  IF link.from_node \in DOMAIN st.nodes_by_id /\ link.to_node \in DOMAIN st.nodes_by_id
  THEN [st EXCEPT !.adj[link.to_node] = Append(@, link.from_node),
                  !.indeg[link.from_node] = @ + 1]
  ELSE st

(* AddLink counting the in-degree of a declared target whatever the source *)
AddLinkCountDangling(st, link) ==
  IF link.to_node \in DOMAIN st.nodes_by_id
  THEN IF link.from_node \in DOMAIN st.nodes_by_id
       THEN [st EXCEPT !.adj[link.from_node] = Append(@, link.to_node),
                       !.indeg[link.to_node] = @ + 1]
       ELSE [st EXCEPT !.indeg[link.to_node] = @ + 1]
  ELSE st

(* AddLink recording the adjacency without counting the in-degree *)
AddLinkNoIndeg(st, link) ==
  IF link.from_node \in DOMAIN st.nodes_by_id /\ link.to_node \in DOMAIN st.nodes_by_id
  THEN [st EXCEPT !.adj[link.from_node] = Append(@, link.to_node)]
  ELSE st

(* Body of "for link in workflow.links" *)
AddLink(st, link) ==
  IF link.from_node \in DOMAIN st.nodes_by_id /\ link.to_node \in DOMAIN st.nodes_by_id
  THEN [st EXCEPT !.adj[link.from_node] = Append(@, link.to_node),
                  !.indeg[link.to_node] = @ + 1]
  ELSE st

RECURSIVE AddLinks(_, _, _)
AddLinks(st, links, i) ==
  IF i > Len(links) THEN st ELSE AddLinks(AddLink(st, links[i]), links, i + 1)

(* SeedQueue walking the nodes from the last declared to the first *)
SeedQueueReversed(keys, indeg) ==
  LET rev == [i \in 1..Len(keys) |-> keys[Len(keys) + 1 - i]]
  IN SelectSeq(rev, LAMBDA k : indeg[k] = 0)

(* SeedQueue putting every node in the queue whatever its in-degree *)
SeedQueueAll(keys, indeg) == keys

(* q = [nid for nid, d in indeg.items() if d == 0] *)
SeedQueue(keys, indeg) == SelectSeq(keys, LAMBDA k : indeg[k] = 0)

(* TopoBegin counting only the links that keep their binding: those with   *)
(* no later link to the same (to_node, to_port)                            *)
TopoBeginActiveOnly(wf) ==
  LET byId == NodesById(wf.nodes)
      active == {i \in 1..Len(wf.links) :
                   ~\E j \in (i + 1)..Len(wf.links) :
                      /\ wf.links[j].to_node = wf.links[i].to_node
                      /\ wf.links[j].to_port = wf.links[i].to_port}
      kept == [i \in 1..Len(wf.links) |-> [link |-> wf.links[i], keep |-> i \in active]]
      links == [i \in 1..Len(SelectSeq(kept, LAMBDA x : x.keep)) |->
                  SelectSeq(kept, LAMBDA x : x.keep)[i].link]
      st0 == [nodes_by_id |-> byId,
              keys        |-> DictKeys(wf.nodes),
              indeg       |-> [k \in DOMAIN byId |-> 0],
              adj         |-> [k \in DOMAIN byId |-> <<>>],
              q           |-> <<>>,
              ordered     |-> <<>>]
      st1 == AddLinks(st0, links, 1)
  IN [st1 EXCEPT !.q = SeedQueue(st1.keys, st1.indeg)]

(* Locals of topo_sort on entry to the while loop *)
TopoBegin(wf) ==
  LET byId == NodesById(wf.nodes)
      st0 == [nodes_by_id |-> byId,
              keys        |-> DictKeys(wf.nodes),
              indeg       |-> [k \in DOMAIN byId |-> 0],
              adj         |-> [k \in DOMAIN byId |-> <<>>],
              q           |-> <<>>,
              ordered     |-> <<>>]
      st1 == AddLinks(st0, wf.links, 1)
  IN [st1 EXCEPT !.q = SeedQueue(st1.keys, st1.indeg)]

(* Relax putting a node in the queue already when one in-degree is left *)
RelaxEager(st, nxt) ==
  LET d == st.indeg[nxt] - 1
  IN [st EXCEPT !.indeg[nxt] = d,
                !.q = IF d = 0 \/ d = 1 THEN Append(@, nxt) ELSE @]

(* Body of "for nxt in adj[nid]" *)
Relax(st, nxt) ==
  LET d == st.indeg[nxt] - 1
  IN [st EXCEPT !.indeg[nxt] = d,
                !.q = IF d = 0 THEN Append(@, nxt) ELSE @]

RECURSIVE RelaxAll(_, _, _)
RelaxAll(st, targets, j) ==
  IF j > Len(targets) THEN st ELSE RelaxAll(Relax(st, targets[j]), targets, j + 1)

(* TopoIter taking the newest element of the queue: q.pop() *)
TopoIterLifo(st) ==
  LET nid == st.q[Len(st.q)]
      st1 == [st EXCEPT !.q = SubSeq(@, 1, Len(@) - 1), !.ordered = Append(@, nid)]
  IN RelaxAll(st1, st.adj[nid], 1)

(* One iteration of "while q" *)
TopoIter(st) ==
  LET nid == Head(st.q)
      st1 == [st EXCEPT !.q = Tail(@), !.ordered = Append(@, nid)]
  IN RelaxAll(st1, st.adj[nid], 1)

RECURSIVE TopoLoop(_)
TopoLoop(st) == IF st.q = <<>> THEN st ELSE TopoLoop(TopoIter(st))

(* TopoEnd without the length check *)
TopoEndNoCheck(wf, st) ==
  [raised |-> FALSE, error |-> NoneVal,
   value |-> [i \in 1..Len(st.ordered) |-> st.nodes_by_id[st.ordered[i]]]]

(* TopoEnd comparing the order against the number of distinct node ids *)
TopoEndDistinctIds(wf, st) ==
  IF Len(st.ordered) # Cardinality(DOMAIN st.nodes_by_id)
  THEN [raised |-> TRUE, error |-> GraphError, value |-> <<>>]
  ELSE [raised |-> FALSE, error |-> NoneVal,
        value |-> [i \in 1..Len(st.ordered) |-> st.nodes_by_id[st.ordered[i]]]]

(* The length check and the return *)
TopoEnd(wf, st) ==
  IF Len(st.ordered) # Len(wf.nodes)
  THEN [raised |-> TRUE, error |-> GraphError, value |-> <<>>]
  ELSE [raised |-> FALSE, error |-> NoneVal,
        value |-> [i \in 1..Len(st.ordered) |-> st.nodes_by_id[st.ordered[i]]]]

topo_sort(wf) == TopoEnd(wf, TopoLoop(TopoBegin(wf)))

----------------------------------------------------------------------------
(* build_input_map and resolve_input *)

(* d[k] = v *)
DictSet(d, k, v) == [x \in DOMAIN d \cup {k} |-> IF x = k THEN v ELSE d[x]]

(* BindLink keeping the binding a port already has *)
BindLinkFirstWins(m, link) ==
  LET inner == DictGet(m, link.to_node, EmptyDict)
      src == [from_node |-> link.from_node, from_port |-> link.from_port]
  IN IF link.to_port \in DOMAIN inner
     THEN m
     ELSE DictSet(m, link.to_node, DictSet(inner, link.to_port, src))

(* Body of "for link in workflow.links" of build_input_map *)
BindLink(m, link) ==
  LET inner == DictGet(m, link.to_node, EmptyDict)
      src == [from_node |-> link.from_node, from_port |-> link.from_port]
  IN DictSet(m, link.to_node, DictSet(inner, link.to_port, src))

RECURSIVE BindLinks(_, _, _)
BindLinks(m, links, i) ==
  IF i > Len(links) THEN m ELSE BindLinks(BindLink(m, links[i]), links, i + 1)

(* build_input_map binding only the links whose source node is declared *)
build_input_map_declared(wf) ==
  BindLinks(EmptyDict,
            SelectSeq(wf.links, LAMBDA l : l.from_node \in DOMAIN NodesById(wf.nodes)), 1)

build_input_map(wf) == BindLinks(EmptyDict, wf.links, 1)

(* What a failed subscript d[k] yields in place of a value *)
KeyErrorVal == "<KeyError>"

(* resolve_input subscripting ctx.outputs instead of using .get *)
resolve_input_subscript(node_id, port, input_map, ctx) ==
  LET ports == DictGet(input_map, node_id, EmptyDict)
  IN IF port \notin DOMAIN ports THEN NoneVal
     ELSE LET src == ports[port]
          IN IF src.from_node \notin DOMAIN ctx.outputs THEN KeyErrorVal
             ELSE IF src.from_port \notin DOMAIN ctx.outputs[src.from_node] THEN KeyErrorVal
             ELSE ctx.outputs[src.from_node][src.from_port]

(* src is None exactly when the port has no entry: a binding is a dict of  *)
(* two keys and never falsy.                                               *)
resolve_input(node_id, port, input_map, ctx) ==
  LET ports == DictGet(input_map, node_id, EmptyDict)
  IN IF port \notin DOMAIN ports THEN NoneVal
     ELSE LET src == ports[port]
          IN DictGet(DictGet(ctx.outputs, src.from_node, EmptyDict), src.from_port, NoneVal)

----------------------------------------------------------------------------
(* ExecutionContext and node_log *)

ExecutionContext == [outputs |-> EmptyDict, logs |-> <<>>, step |-> 0]

(* node_log numbering the entries of each node from 1 again *)
node_log_per_node(ctx, node, status, extra) ==
  LET step == IF status = "running" THEN 1 ELSE ctx.step + 1
      base == [step |-> step, node |-> node.id, type |-> node.type, status |-> status]
      entry == IF extra = EmptyDict THEN base ELSE extra @@ base
  IN [ctx EXCEPT !.step = step, !.logs = Append(@, entry)]

(* extra is EmptyDict where the code passes None *)
node_log(ctx, node, status, extra) ==
  LET step == ctx.step + 1
      base == [step |-> step, node |-> node.id, type |-> node.type, status |-> status]
      entry == IF extra = EmptyDict THEN base ELSE extra @@ base
  IN [ctx EXCEPT !.step = step, !.logs = Append(@, entry)]

----------------------------------------------------------------------------
(* Node handlers.  A handler's outcome is its output map and the files it  *)
(* wrote, or the message of the exception it raised.                       *)

HandlerOk(out, writes) ==
  [raised |-> FALSE, error |-> NoneVal, out |-> out, writes |-> writes]
HandlerRaise(msg) ==
  [raised |-> TRUE, error |-> msg, out |-> EmptyDict, writes |-> EmptyDict]

run_node_text(node, ctx) ==
  HandlerOk([text |-> DictGet(node.data, "text", "")], EmptyDict)

(* data.overwrite is left at its default True and data.path stays inside   *)
(* WORKSPACE, so the only failure is a missing data.path.                  *)
run_node_writefile(node, input_map, ctx) ==
  LET relp == DictGet(node.data, "path", NoneVal)
  IN IF relp = NoneVal
     THEN HandlerRaise("WriteFile requiere data.path")
     ELSE LET text_in == resolve_input(node.id, "text", input_map, ctx)
              content == IF text_in # NoneVal THEN text_in
                         ELSE DictGet(node.data, "text", "")
          IN HandlerOk([path |-> relp], DictSet(EmptyDict, relp, content))

(* The types that have an entry in NODE_RUNNERS *)
NODE_RUNNERS == {"Text", "ReadFile", "WriteFile", "MergeAudio", "VideoClip", "ConcatVideo"}

(* The dispatch of execute_workflow; the workflows explored use the Text   *)
(* and WriteFile handlers only.                                            *)
RunNode(node, input_map, ctx) ==
  CASE node.type = "Text" -> run_node_text(node, ctx)
    [] node.type = "WriteFile" -> run_node_writefile(node, input_map, ctx)

(* f"Nodo no soportado: {node.type}" for the unregistered types explored *)
UnsupportedMsg(type) ==
  CASE type = "Bogus" -> "Nodo no soportado: Bogus"

----------------------------------------------------------------------------
(* execute_workflow under run_workflow_api, as steps over a run record:    *)
(* pc ("idle", "loop", "handler", "returned", "raised"), the context, the  *)
(* dependency map, the scheduled nodes, the 1-based loop position i and    *)
(* the HTTP response of the request.                                       *)

NoResponse == [status |-> 0, body |-> EmptyDict, detail |-> NoneVal]

IdleRun == [pc |-> "idle", ctx |-> ExecutionContext, input_map |-> EmptyDict,
            ordered |-> <<>>, i |-> 0, response |-> NoResponse]

(* ExecRaise attaching the partial context to the error response *)
ExecRaiseWithPartial(r, msg) ==
  [r EXCEPT !.pc = "raised",
            !.response = [status |-> 400, detail |-> msg,
                          body |-> [outputs |-> r.ctx.outputs, logs |-> r.ctx.logs]]]

(* An exception leaves execute_workflow: HTTPException(400, detail=str(e)) *)
ExecRaise(r, msg) ==
  [r EXCEPT !.pc = "raised",
            !.response = [status |-> 400, body |-> EmptyDict, detail |-> msg]]

(* The return of execute_workflow: JSONResponse(result) *)
ExecReturn(r) ==
  [r EXCEPT !.pc = "returned",
            !.response = [status |-> 200, detail |-> NoneVal,
                          body |-> [ok |-> TRUE, workspace |-> "WORKSPACE",
                                    outputs |-> r.ctx.outputs, logs |-> r.ctx.logs]]]

(* ExecBegin rejecting a workflow that declares a type without a handler *)
ExecBeginChecksTypes(wf) ==
  LET r == [IdleRun EXCEPT !.ctx = ExecutionContext,
                           !.input_map = build_input_map(wf)]
      t == topo_sort(wf)
      bad == {k \in 1..Len(wf.nodes) : wf.nodes[k].type \notin NODE_RUNNERS}
  IN IF t.raised THEN ExecRaise(r, t.error)
     ELSE IF bad # {}
          THEN ExecRaise(r, UnsupportedMsg(wf.nodes[CHOOSE k \in bad : TRUE].type))
          ELSE [r EXCEPT !.pc = "loop", !.ordered = t.value, !.i = 1]

(* ctx, input_map and ordered are set up; topo_sort may raise *)
ExecBegin(wf) ==
  LET r == [IdleRun EXCEPT !.ctx = ExecutionContext,
                           !.input_map = build_input_map(wf)]
      t == topo_sort(wf)
  IN IF t.raised THEN ExecRaise(r, t.error)
     ELSE [r EXCEPT !.pc = "loop", !.ordered = t.value, !.i = 1]

(* ExecRunning logging an "error" entry for a type without a handler *)
ExecRunningLogsError(r) ==
  LET node == r.ordered[r.i]
      r1 == [r EXCEPT !.ctx = node_log(@, node, "running", EmptyDict)]
  IN IF node.type \notin NODE_RUNNERS
     THEN ExecRaise([r1 EXCEPT !.ctx = node_log(@, node, "error",
                                                [error |-> UnsupportedMsg(node.type)])],
                    UnsupportedMsg(node.type))
     ELSE [r1 EXCEPT !.pc = "handler"]

(* Top of the loop body: the "running" entry and the registry lookup *)
ExecRunning(r) ==
  LET node == r.ordered[r.i]
      r1 == [r EXCEPT !.ctx = node_log(@, node, "running", EmptyDict)]
  IN IF node.type \notin NODE_RUNNERS
     THEN ExecRaise(r1, UnsupportedMsg(node.type))
     ELSE [r1 EXCEPT !.pc = "handler"]

(* ExecHandler going on to the next node after a handler failure *)
ExecHandlerContinue(r) ==
  LET node == r.ordered[r.i]
      h == RunNode(node, r.input_map, r.ctx)
  IN IF ~h.raised
     THEN LET ctx1 == [r.ctx EXCEPT !.outputs = DictSet(@, node.id, h.out)]
          IN [r EXCEPT !.ctx = node_log(ctx1, node, "done", [outputs |-> h.out]),
                       !.i = @ + 1,
                       !.pc = "loop"]
     ELSE [r EXCEPT !.ctx = node_log(@, node, "error", [error |-> h.error]),
                    !.i = @ + 1,
                    !.pc = "loop"]

(* ExecHandler logging "done" without capturing the outputs in the context *)
ExecHandlerNoCapture(r) ==
  LET node == r.ordered[r.i]
      h == RunNode(node, r.input_map, r.ctx)
  IN IF ~h.raised
     THEN [r EXCEPT !.ctx = node_log(@, node, "done", [outputs |-> h.out]),
                    !.i = @ + 1,
                    !.pc = "loop"]
     ELSE ExecRaise([r EXCEPT !.ctx = node_log(@, node, "error", [error |-> h.error])],
                    h.error)

(* ExecHandler recording an empty output map for a node whose handler raised *)
ExecHandlerCaptureOnError(r) ==
  LET node == r.ordered[r.i]
      h == RunNode(node, r.input_map, r.ctx)
  IN IF ~h.raised
     THEN [r EXCEPT !.ctx = node_log([@ EXCEPT !.outputs = DictSet(@, node.id, h.out)],
                                     node, "done", [outputs |-> h.out]),
                    !.i = @ + 1,
                    !.pc = "loop"]
     ELSE ExecRaise([r EXCEPT !.ctx = node_log([@ EXCEPT !.outputs = DictSet(@, node.id, EmptyDict)],
                                               node, "error", [error |-> h.error])],
                    h.error)

(* ExecHandler going on to the next node without logging "done" *)
ExecHandlerNoDoneLog(r) ==
  LET node == r.ordered[r.i]
      h == RunNode(node, r.input_map, r.ctx)
  IN IF ~h.raised
     THEN [r EXCEPT !.ctx.outputs = DictSet(@, node.id, h.out),
                    !.i = @ + 1,
                    !.pc = "loop"]
     ELSE ExecRaise([r EXCEPT !.ctx = node_log(@, node, "error", [error |-> h.error])],
                    h.error)

(* The try block: the handler runs, then "done" or "error" is logged *)
ExecHandler(r) ==
  LET node == r.ordered[r.i]
      h == RunNode(node, r.input_map, r.ctx)
  IN IF ~h.raised
     THEN LET ctx1 == [r.ctx EXCEPT !.outputs = DictSet(@, node.id, h.out)]
          IN [r EXCEPT !.ctx = node_log(ctx1, node, "done", [outputs |-> h.out]),
                       !.i = @ + 1,
                       !.pc = "loop"]
     ELSE ExecRaise([r EXCEPT !.ctx = node_log(@, node, "error", [error |-> h.error])],
                    h.error)

(* The files of WORKSPACE after the handler of the current node ran *)
FilesAfter(r, fs) ==
  LET h == RunNode(r.ordered[r.i], r.input_map, r.ctx)
  IN h.writes @@ fs

----------------------------------------------------------------------------
(* Inputs of the scheduler: nodes carry ids only, links endpoints only *)

TopoNode(id) == [id |-> id, type |-> "Text", data |-> EmptyDict]

TopoLinkSet ==
  [from_node : FirstIds(TopoMaxNodes) \cup {Ghost}, from_port : {"text"},
   to_node : FirstIds(TopoMaxNodes) \cup {Ghost}, to_port : {"text"}]

TopoWorkflow(s, l) == [nodes |-> [i \in 1..Len(s) |-> TopoNode(s[i])], links |-> l]

NoTopoState == [nodes_by_id |-> EmptyDict, keys |-> <<>>, indeg |-> EmptyDict,
                adj |-> EmptyDict, q |-> <<>>, ordered |-> <<>>]
NoResult == [raised |-> FALSE, error |-> NoneVal, value |-> <<>>]
NoCall == [node_id |-> NoneVal, port |-> NoneVal, value |-> NoneVal]

TopoIdle == tpc = "idle" /\ tst = NoTopoState /\ tres = NoResult
ResIdle == rpc = "idle" /\ rmap = EmptyDict /\ rctx = ExecutionContext /\ rres = NoCall
ExecIdle == run = IdleRun /\ history = <<>> /\ files = EmptyDict
ConcIdle == conc = <<>>

TopoInit ==
  /\ \E s \in IdSeqs(TopoMaxNodes) : \E l \in SeqsUpTo(TopoLinkSet, TopoMaxLinks) :
       workflow = TopoWorkflow(s, l)
  /\ tpc = "start"
  /\ tst = NoTopoState
  /\ tres = NoResult
  /\ ResIdle
  /\ ExecIdle
  /\ ConcIdle

(* topo_sort is entered: the dicts are built and the queue is seeded *)
TopoCall ==
  /\ tpc = "start"
  /\ tst' = TopoBegin(workflow)
  /\ tpc' = "loop"
  /\ UNCHANGED <<workflow, concVars, tres, resVars, execVars>>

(* One iteration of the while loop *)
TopoStep ==
  /\ tpc = "loop"
  /\ tst.q # <<>>
  /\ tst' = TopoIter(tst)
  /\ UNCHANGED <<workflow, concVars, tpc, tres, resVars, execVars>>

(* The loop has ended: raise or return *)
TopoFinish ==
  /\ tpc = "loop"
  /\ tst.q = <<>>
  /\ tres' = TopoEnd(workflow, tst)
  /\ tpc' = IF tres'.raised THEN "raised" ELSE "returned"
  /\ UNCHANGED <<workflow, concVars, tst, resVars, execVars>>

TopoNext == TopoCall \/ TopoStep \/ TopoFinish

SpecTopo == TopoInit /\ [][TopoNext]_vars

(* topo_sort is straight-line sequential code: once called it keeps taking *)
(* steps while one is possible                                             *)
FairMaxNodes == 2
FairMaxLinks == 2

FairLinkSet ==
  [from_node : FirstIds(FairMaxNodes) \cup {Ghost}, from_port : {"text"},
   to_node : FirstIds(FairMaxNodes) \cup {Ghost}, to_port : {"text"}]

TopoFairInit ==
  /\ \E s \in IdSeqs(FairMaxNodes) : \E l \in SeqsUpTo(FairLinkSet, FairMaxLinks) :
       workflow = TopoWorkflow(s, l)
  /\ tpc = "start"
  /\ tst = NoTopoState
  /\ tres = NoResult
  /\ ResIdle
  /\ ExecIdle
  /\ ConcIdle

SpecTopoFair == TopoFairInit /\ [][TopoNext]_vars /\ WF_vars(TopoNext)

----------------------------------------------------------------------------
(* The /run endpoint: requests are served one after another, each with the *)
(* same workflow.                                                          *)

MaxRuns == 2
ExecMaxNodes == 2
ExecMaxLinks == 2

(* Type and data of the nodes explored: a text source, a file writer with  *)
(* and without its required data.path, and a type without a handler.       *)
NodeKinds ==
  {[type |-> "Text", data |-> [text |-> "hello"]],
   [type |-> "WriteFile", data |-> [path |-> "out.txt"]],
   [type |-> "WriteFile", data |-> EmptyDict],
   [type |-> "Bogus", data |-> EmptyDict]}

(* Links feed the one input port the handlers explored read ("text") from *)
(* the "text" output of a declared or an undeclared node.                  *)
ExecLinkSet ==
  [from_node : FirstIds(ExecMaxNodes) \cup {Ghost}, from_port : {"text"},
   to_node : FirstIds(ExecMaxNodes), to_port : {"text"}]

(* Nodes that share an id share type and data *)
ExecWorkflow(s, k, l) ==
  [nodes |-> [i \in 1..Len(s) |-> [id |-> s[i], type |-> k[s[i]].type, data |-> k[s[i]].data]],
   links |-> l]

Init ==
  /\ \E s \in IdSeqs(ExecMaxNodes) : \E k \in [Range(s) -> NodeKinds] :
       \E l \in SeqsUpTo(ExecLinkSet, ExecMaxLinks) :
         workflow = ExecWorkflow(s, k, l)
  /\ TopoIdle
  /\ ResIdle
  /\ ExecIdle
  /\ ConcIdle

RunDone(r) == r.pc \in {"returned", "raised"}

(* ApiRun with one context kept for all requests *)
ApiRunSharedContext ==
  /\ run.pc = "idle" \/ RunDone(run)
  /\ Len(history) + (IF RunDone(run) THEN 1 ELSE 0) < MaxRuns
  /\ history' = IF RunDone(run) THEN Append(history, run) ELSE history
  /\ run' = LET r == ExecBegin(workflow) IN [r EXCEPT !.ctx = run.ctx]
  /\ UNCHANGED <<workflow, concVars, topoVars, resVars, files>>

(* POST /run arrives: run_workflow_api calls execute_workflow *)
ApiRun ==
  /\ run.pc = "idle" \/ RunDone(run)
  /\ Len(history) + (IF RunDone(run) THEN 1 ELSE 0) < MaxRuns
  /\ history' = IF RunDone(run) THEN Append(history, run) ELSE history
  /\ run' = ExecBegin(workflow)
  /\ UNCHANGED <<workflow, concVars, topoVars, resVars, files>>

(* The loop reaches the next node: "running" is logged, the runner looked up *)
StepRunning ==
  /\ run.pc = "loop"
  /\ run.i <= Len(run.ordered)
  /\ run' = ExecRunning(run)
  /\ UNCHANGED <<workflow, concVars, topoVars, resVars, history, files>>

(* The handler of the current node runs to its end *)
StepHandler ==
  /\ run.pc = "handler"
  /\ run' = ExecHandler(run)
  /\ files' = FilesAfter(run, files)
  /\ UNCHANGED <<workflow, concVars, topoVars, resVars, history>>

(* The loop is exhausted: the result is returned *)
StepReturn ==
  /\ run.pc = "loop"
  /\ run.i > Len(run.ordered)
  /\ run' = ExecReturn(run)
  /\ UNCHANGED <<workflow, concVars, topoVars, resVars, history, files>>

Next == ApiRun \/ StepRunning \/ StepHandler \/ StepReturn

Spec == Init /\ [][Next]_vars

----------------------------------------------------------------------------
(* Two /run requests served at the same time.  run_workflow_api is a plain *)
(* def, so each request runs execute_workflow in a worker thread; every    *)
(* call creates its own ExecutionContext, WORKSPACE is common to all.      *)

ConcMaxNodes == 2
ConcMaxLinks == 1

Requests == {1, 2}

ConcLinkSet ==
  [from_node : FirstIds(ConcMaxNodes), from_port : {"text"},
   to_node : FirstIds(ConcMaxNodes), to_port : {"text"}]

(* Workflows of the second request, over node ids of their own: a chain    *)
(* that succeeds, a handler failure after a success, a type without        *)
(* handler, and a cycle                                                    *)
OtherWorkflows ==
  LET text(id) == [id |-> id, type |-> "Text", data |-> [text |-> "hello"]]
      write(id) == [id |-> id, type |-> "WriteFile", data |-> [path |-> "out.txt"]]
      nopath(id) == [id |-> id, type |-> "WriteFile", data |-> EmptyDict]
      bogus(id) == [id |-> id, type |-> "Bogus", data |-> EmptyDict]
      link(a, b) == [from_node |-> a, from_port |-> "text", to_node |-> b, to_port |-> "text"]
  IN {[nodes |-> <<write("Q"), text("P")>>, links |-> <<link("P", "Q")>>],
      [nodes |-> <<text("P"), nopath("Q")>>, links |-> <<>>],
      [nodes |-> <<bogus("P")>>, links |-> <<>>],
      [nodes |-> <<text("P"), text("Q")>>, links |-> <<link("P", "Q"), link("Q", "P")>>]}

ConcInit ==
  /\ \E s \in IdSeqs(ConcMaxNodes) : \E k \in [Range(s) -> NodeKinds] :
       \E l \in SeqsUpTo(ConcLinkSet, ConcMaxLinks) : \E o \in OtherWorkflows :
         /\ workflow = ExecWorkflow(s, k, l)
         /\ conc = <<[wf |-> workflow, r |-> IdleRun], [wf |-> o, r |-> IdleRun]>>
  /\ TopoIdle
  /\ ResIdle
  /\ ExecIdle

(* ConcRunning writing its log entry into a context all requests share *)
ConcRunningSharedContext(q) ==
  /\ conc[q].r.pc = "loop"
  /\ conc[q].r.i <= Len(conc[q].r.ordered)
  /\ LET r1 == ExecRunning(conc[q].r)
     IN conc' = [p \in DOMAIN conc |->
                  IF p = q THEN [conc[p] EXCEPT !.r = r1]
                  ELSE [conc[p] EXCEPT !.r.ctx = r1.ctx]]
  /\ UNCHANGED <<workflow, topoVars, resVars, execVars>>

(* The worker thread of request q enters execute_workflow *)
ConcBegin(q) ==
  /\ conc[q].r.pc = "idle"
  /\ conc' = [conc EXCEPT ![q].r = ExecBegin(conc[q].wf)]
  /\ UNCHANGED <<workflow, topoVars, resVars, execVars>>

(* The loop of request q reaches its next node *)
ConcRunning(q) ==
  /\ conc[q].r.pc = "loop"
  /\ conc[q].r.i <= Len(conc[q].r.ordered)
  /\ conc' = [conc EXCEPT ![q].r = ExecRunning(@)]
  /\ UNCHANGED <<workflow, topoVars, resVars, execVars>>

(* The handler of the current node of request q runs to its end *)
ConcHandler(q) ==
  /\ conc[q].r.pc = "handler"
  /\ conc' = [conc EXCEPT ![q].r = ExecHandler(@)]
  /\ files' = FilesAfter(conc[q].r, files)
  /\ UNCHANGED <<workflow, topoVars, resVars, run, history>>

(* The loop of request q is exhausted: its result is returned *)
ConcReturn(q) ==
  /\ conc[q].r.pc = "loop"
  /\ conc[q].r.i > Len(conc[q].r.ordered)
  /\ conc' = [conc EXCEPT ![q].r = ExecReturn(@)]
  /\ UNCHANGED <<workflow, topoVars, resVars, execVars>>

ConcNext ==
  \E q \in Requests : ConcBegin(q) \/ ConcRunning(q) \/ ConcHandler(q) \/ ConcReturn(q)

SpecConc == ConcInit /\ [][ConcNext]_vars

----------------------------------------------------------------------------
(* The dependency resolver on its own: a dependency map is built from the  *)
(* links of a workflow and ports are resolved against a context in which   *)
(* some nodes have produced an output map.                                 *)

ResMaxLinks == 2

(* The nodes of the workflow whose ports are resolved *)
ResIds == <<"A", "B">>

ResLinkSet ==
  [from_node : Range(ResIds) \cup {Ghost}, from_port : {"text", "path"},
   to_node : Range(ResIds), to_port : {"text", "a"}]

(* The value a node emits on a port, different for every node and port *)
SampleValue(id, port) ==
  CASE port = "text" ->
         (CASE id = "A" -> "text of A" [] id = "B" -> "text of B"
            [] id = "C" -> "text of C" [] id = "D" -> "text of D"
            [] OTHER -> "text of E")
    [] port = "path" ->
         (CASE id = "A" -> "a.txt" [] id = "B" -> "b.txt"
            [] id = "C" -> "c.txt" [] id = "D" -> "d.txt"
            [] OTHER -> "e.txt")

(* The output map of a handler that emits the single port "port" *)
SampleOutput(id, port) == DictSet(EmptyDict, port, SampleValue(id, port))

ResInit ==
  /\ \E l \in SeqsUpTo(ResLinkSet, ResMaxLinks) :
       workflow = [nodes |-> [i \in 1..Len(ResIds) |-> TopoNode(ResIds[i])], links |-> l]
  /\ \E S \in SUBSET Range(ResIds) : \E emits \in [S -> {"text", "path"}] :
       rctx = [ExecutionContext EXCEPT
                 !.outputs = [id \in S |-> SampleOutput(id, emits[id])]]
  /\ rpc = "start"
  /\ rmap = EmptyDict
  /\ rres = NoCall
  /\ TopoIdle
  /\ ExecIdle
  /\ ConcIdle

(* build_input_map(workflow) *)
ResolveBuild ==
  /\ rpc = "start"
  /\ rmap' = build_input_map(workflow)
  /\ rpc' = "built"
  /\ UNCHANGED <<workflow, concVars, rctx, rres, topoVars, execVars>>

(* resolve_input(node_id, port, input_map, ctx) *)
ResolveCall ==
  /\ rpc = "built"
  /\ \E node_id \in Range(ResIds) \cup {Ghost} : \E port \in {"text", "a"} :
       rres' = [node_id |-> node_id, port |-> port,
                value |-> resolve_input(node_id, port, rmap, rctx)]
  /\ UNCHANGED <<workflow, concVars, rpc, rmap, rctx, topoVars, execVars>>

ResNext == ResolveBuild \/ ResolveCall

SpecResolve == ResInit /\ [][ResNext]_vars

----------------------------------------------------------------------------
(* Vocabulary of the scheduling properties *)

NodeIdsOf(wf) == [i \in 1..Len(wf.nodes) |-> wf.nodes[i].id]
Declared(wf) == Range(NodeIdsOf(wf))
UniqueIds(wf) == Cardinality(Declared(wf)) = Len(wf.nodes)

IsValidLink(wf, link) == link.from_node \in Declared(wf) /\ link.to_node \in Declared(wf)
ValidEdges(wf) ==
  {<<wf.links[i].from_node, wf.links[i].to_node>> :
     i \in {k \in 1..Len(wf.links) : IsValidLink(wf, wf.links[k])}}

(* Pairs joined by a path of one or more edges, of length at most n *)
RECURSIVE Paths(_, _)
Paths(E, n) ==
  IF n <= 1 THEN E
  ELSE LET P == Paths(E, n - 1)
       IN P \cup {<<c[1][1], c[2][2]>> : c \in {d \in E \X P : d[1][2] = d[2][1]}}

HasCycle(wf) ==
  LET n == Cardinality(Declared(wf))
  IN \E e \in Paths(ValidEdges(wf), n) : e[1] = e[2]

(* The workflow without the links that have an undeclared endpoint *)
Pruned(wf) == [wf EXCEPT !.links = SelectSeq(@, LAMBDA l : IsValidLink(wf, l))]

TopoDone == tpc \in {"returned", "raised"}
OrderIds(res) == [i \in 1..Len(res.value) |-> res.value[i].id]
DeclPos(wf, id) == IndexOf(NodeIdsOf(wf), id)
OrderPos(res, id) == IndexOf(OrderIds(res), id)

Before(res, a, b) ==
  /\ OrderPos(res, a) > 0
  /\ OrderPos(res, b) > 0
  /\ OrderPos(res, a) < OrderPos(res, b)

Preds(wf, n) == {e[1] : e \in {x \in ValidEdges(wf) : x[2] = n}}

(* Position in the order of the node whose dequeue made n ready: the last  *)
(* scheduled producer of n; 0 for a node seeded at the start.              *)
ReadyAt(wf, res, n) ==
  IF Preds(wf, n) = {} THEN 0 ELSE Max({OrderPos(res, p) : p \in Preds(wf, n)})

(* Position in workflow.links of the last link p -> n *)
LastLinkPos(wf, p, n) ==
  Max({0} \cup {i \in 1..Len(wf.links) :
                  wf.links[i].from_node = p /\ wf.links[i].to_node = n})

----------------------------------------------------------------------------
(* Scheduler properties, checked under SpecTopo *)

(* C1: for a graph with unique ids and acyclic valid edges topo_sort       *)
(* returns, and every valid edge's source precedes its target in the order *)
C1_Linearization ==
  (TopoDone /\ UniqueIds(workflow) /\ ~HasCycle(workflow)) =>
     /\ tpc = "returned"
     /\ \A e \in ValidEdges(workflow) : Before(tres, e[1], e[2])

C1_Witness ==
  /\ tpc = "returned"
  /\ Cardinality(ValidEdges(workflow)) >= 2
  /\ \E e \in ValidEdges(workflow) : DeclPos(workflow, e[1]) > DeclPos(workflow, e[2])

(* C5: the outcome of topo_sort (order or failure) equals its outcome on   *)
(* the same graph without the links that have an undeclared endpoint       *)
C5_DanglingIgnored == TopoDone => tres = topo_sort(Pruned(workflow))

C5_Witness ==
  /\ tpc = "returned"
  /\ Pruned(workflow) # workflow
  /\ ValidEdges(workflow) # {}
  /\ \E i \in 1..Len(workflow.links) :
       workflow.links[i].from_node = Ghost /\ workflow.links[i].to_node \in Declared(workflow)

(* C7 as stated: two nodes that become ready at the same point are         *)
(* scheduled in node declaration order                                     *)
C7_TiesByDeclaration ==
  tpc = "returned" =>
    \A m \in Declared(workflow) : \A n \in Declared(workflow) :
      (/\ m # n
       /\ ReadyAt(workflow, tres, m) = ReadyAt(workflow, tres, n)
       /\ DeclPos(workflow, m) < DeclPos(workflow, n))
      => Before(tres, m, n)

(* C7 amended: nodes seeded together at the start are scheduled in node    *)
(* declaration order; nodes made ready by the dequeue of the same node p   *)
(* are scheduled in the order of their last links from p                   *)
C7_TiesSeedDeclRefillLink ==
  tpc = "returned" =>
    \A m \in Declared(workflow) : \A n \in Declared(workflow) :
      (m # n /\ ReadyAt(workflow, tres, m) = ReadyAt(workflow, tres, n)) =>
        LET k == ReadyAt(workflow, tres, m)
        IN IF k = 0
           THEN DeclPos(workflow, m) < DeclPos(workflow, n) => Before(tres, m, n)
           ELSE LastLinkPos(workflow, OrderIds(tres)[k], m) < LastLinkPos(workflow, OrderIds(tres)[k], n)
                  => Before(tres, m, n)

C7_Witness ==
  /\ tpc = "returned"
  /\ \E m \in Declared(workflow) : \E n \in Declared(workflow) :
       /\ ReadyAt(workflow, tres, m) > 0
       /\ ReadyAt(workflow, tres, m) = ReadyAt(workflow, tres, n)
       /\ DeclPos(workflow, m) < DeclPos(workflow, n)
       /\ Before(tres, n, m)

----------------------------------------------------------------------------
(* Resolver properties, checked under SpecResolve *)

SameTarget(l1, l2) == l1.to_node = l2.to_node /\ l1.to_port = l2.to_port

(* Position of the last link of wf that targets the port link i targets *)
LastToSameTarget(wf, i) ==
  Max({j \in 1..Len(wf.links) : SameTarget(wf.links[i], wf.links[j])})

(* The value the producer side of a link has in the outputs, None if none *)
LinkValue(outputs, link) ==
  IF link.from_node \in DOMAIN outputs /\ link.from_port \in DOMAIN outputs[link.from_node]
  THEN outputs[link.from_node][link.from_port]
  ELSE NoneVal

Called == rpc = "built" /\ rres # NoCall

(* C4: of the links that target one (to_node, to_port) the dependency map  *)
(* holds the last declared, and resolving the port yields the value of     *)
(* that link's (from_node, from_port) output                               *)
C4_FanInLastWins ==
  rpc = "built" =>
    \A i \in 1..Len(workflow.links) :
      LET link == workflow.links[i]
          last == workflow.links[LastToSameTarget(workflow, i)]
      IN /\ link.to_node \in DOMAIN rmap
         /\ link.to_port \in DOMAIN rmap[link.to_node]
         /\ rmap[link.to_node][link.to_port] =
              [from_node |-> last.from_node, from_port |-> last.from_port]
         /\ (rres.node_id = link.to_node /\ rres.port = link.to_port)
              => rres.value = LinkValue(rctx.outputs, last)

C4_Witness ==
  /\ Called
  /\ \E i \in 1..Len(workflow.links) : \E j \in 1..Len(workflow.links) :
       /\ i < j
       /\ SameTarget(workflow.links[i], workflow.links[j])
       /\ rres.node_id = workflow.links[j].to_node
       /\ rres.port = workflow.links[j].to_port
       /\ LinkValue(rctx.outputs, workflow.links[i]) # NoneVal
       /\ LinkValue(rctx.outputs, workflow.links[j]) # NoneVal
       /\ LinkValue(rctx.outputs, workflow.links[i]) # LinkValue(rctx.outputs, workflow.links[j])
       /\ rres.value = LinkValue(rctx.outputs, workflow.links[j])

(* C6: resolve_input yields a value and never fails: None when the port    *)
(* has no binding, when the bound from_node has no entry in ctx.outputs or *)
(* when that entry lacks from_port; outputs[from_node][from_port] otherwise *)
C6_ResolveTotal ==
  Called =>
    /\ rres.value # KeyErrorVal
    /\ IF rres.node_id \notin DOMAIN rmap THEN rres.value = NoneVal
       ELSE IF rres.port \notin DOMAIN rmap[rres.node_id] THEN rres.value = NoneVal
       ELSE LET src == rmap[rres.node_id][rres.port]
            IN IF src.from_node \notin DOMAIN rctx.outputs THEN rres.value = NoneVal
               ELSE IF src.from_port \notin DOMAIN rctx.outputs[src.from_node]
                    THEN rres.value = NoneVal
                    ELSE rres.value = rctx.outputs[src.from_node][src.from_port]

C6_Witness ==
  /\ Called
  /\ rctx.outputs # EmptyDict
  /\ rres.node_id \in DOMAIN rmap
  /\ rres.port \in DOMAIN rmap[rres.node_id]
  /\ rmap[rres.node_id][rres.port].from_node = Ghost
  /\ rres.value = NoneVal

----------------------------------------------------------------------------
(* Executor properties, checked under Spec *)

(* topo_sort returned to execute_workflow *)
Scheduled(r) == r.pc \in {"loop", "handler", "returned"} \/ (r.pc = "raised" /\ r.i >= 1)

EntriesOf(logs, id) == {k \in 1..Len(logs) : logs[k].node = id}
EntriesWith(logs, id, status) == {k \in EntriesOf(logs, id) : logs[k].status = status}

NoBundle(r) == r.response.status = 400 /\ r.response.body = EmptyDict

(* C2: a workflow whose valid edges contain a cycle fails with the graph   *)
(* error before any handler is invoked: no log entry, step 0, no outputs   *)
C2_CycleFailsFirst ==
  LET r == run IN
    (r.pc # "idle" /\ HasCycle(workflow)) =>
       /\ r.pc = "raised"
       /\ r.response.detail = GraphError
       /\ NoBundle(r)
       /\ r.ctx.logs = <<>>
       /\ r.ctx.step = 0
       /\ r.ctx.outputs = EmptyDict
       /\ files = EmptyDict

C2_Witness ==
  /\ run.pc = "raised"
  /\ UniqueIds(workflow)
  /\ HasCycle(workflow)
  /\ \E n \in Declared(workflow) : Preds(workflow, n) = {}

(* C3: two executions of the same workflow have the same scheduled order   *)
(* and the same log entries with the same steps, numbered from 1 again     *)
C3_Deterministic ==
  \A h \in Range(history) :
    /\ RunDone(run) =>
         /\ run.ordered = h.ordered
         /\ run.ctx.logs = h.ctx.logs
         /\ run.pc = h.pc
    /\ run.pc # "idle" =>
         /\ Len(run.ctx.logs) <= Len(h.ctx.logs)
         /\ \A k \in 1..Len(run.ctx.logs) :
              run.ctx.logs[k] = h.ctx.logs[k] /\ run.ctx.logs[k].step = k

C3_Witness ==
  /\ Len(history) = 1
  /\ run.pc = "returned"
  /\ Len(run.ctx.logs) >= 4
  /\ run.ctx.logs = history[1].ctx.logs

(* C8: of two declared nodes without incoming valid edge the one declared  *)
(* first is scheduled first and, on a successful run, logs "running" at    *)
(* the smaller step                                                        *)
C8_SeedsInDeclarationOrder ==
  Scheduled(run) =>
    LET targets == {e[2] : e \in ValidEdges(workflow)}
        seeds == Declared(workflow) \ targets
        order == [value |-> run.ordered]
        logs == run.ctx.logs
    IN \A m \in seeds : \A n \in seeds :
         DeclPos(workflow, m) < DeclPos(workflow, n) =>
           /\ Before(order, m, n)
           /\ run.pc = "returned" =>
                \E a \in EntriesWith(logs, m, "running") :
                \E b \in EntriesWith(logs, n, "running") :
                  logs[a].step < logs[b].step

C8_Witness ==
  /\ run.pc = "returned"
  /\ Len(run.ctx.logs) >= 4
  /\ \E m \in Declared(workflow) : \E n \in Declared(workflow) :
       /\ m # n
       /\ Preds(workflow, m) = {}
       /\ Preds(workflow, n) = {}

(* The executor has reached position k of the order and is past the        *)
(* registry lookup for it                                                  *)
Reached(r, k) == k < r.i \/ (k = r.i /\ r.pc \in {"handler", "raised"})

(* C9: when the executor reaches a node whose type has no handler the run  *)
(* aborts; the log ends with that node's only entry, a "running" one; the  *)
(* node has no outputs, later nodes no log entry, and no bundle is returned *)
C9_UnsupportedType ==
  LET r == run IN
    \A k \in 1..Len(r.ordered) :
      (Reached(r, k) /\ r.ordered[k].type \notin NODE_RUNNERS) =>
         LET node == r.ordered[k]
             logs == r.ctx.logs
         IN /\ r.pc = "raised"
            /\ r.i = k
            /\ NoBundle(r)
            /\ Len(logs) >= 1
            /\ logs[Len(logs)].node = node.id
            /\ logs[Len(logs)].status = "running"
            /\ EntriesOf(logs, node.id) = {Len(logs)}
            /\ node.id \notin DOMAIN r.ctx.outputs
            /\ \A j \in (k + 1)..Len(r.ordered) : EntriesOf(logs, r.ordered[j].id) = {}

C9_Witness ==
  /\ run.pc = "raised"
  /\ Len(run.ordered) >= 2
  /\ run.i < Len(run.ordered)
  /\ run.ordered[run.i].type = "Bogus"
  /\ run.ctx.logs # <<>>
  /\ run.ctx.logs[Len(run.ctx.logs)].status = "running"

(* The handler of a node raises (for the handlers explored this depends on *)
(* the node's data only)                                                   *)
HandlerFails(r, k) ==
  /\ r.ordered[k].type \in NODE_RUNNERS
  /\ RunNode(r.ordered[k], r.input_map, r.ctx).raised

(* The handler of position k has been invoked and has finished *)
Finished(r, k) == k < r.i \/ (k = r.i /\ r.pc = "raised")

(* C10: when a node's handler fails the log ends with that node's          *)
(* "running" entry followed by its "error" entry, no later node is logged  *)
(* or run, the node has no outputs and no bundle is returned               *)
C10_FailFast ==
  LET r == run IN
    \A k \in 1..Len(r.ordered) :
      (Finished(r, k) /\ HandlerFails(r, k)) =>
         LET node == r.ordered[k]
             logs == r.ctx.logs
             n == Len(logs)
         IN /\ r.pc = "raised"
            /\ r.i = k
            /\ NoBundle(r)
            /\ n >= 2
            /\ logs[n - 1].node = node.id /\ logs[n - 1].status = "running"
            /\ logs[n].node = node.id /\ logs[n].status = "error"
            /\ logs[n].step = logs[n - 1].step + 1
            /\ EntriesOf(logs, node.id) = {n - 1, n}
            /\ node.id \notin DOMAIN r.ctx.outputs
            /\ \A j \in (k + 1)..Len(r.ordered) :
                 /\ EntriesOf(logs, r.ordered[j].id) = {}
                 /\ r.ordered[j].id \notin DOMAIN r.ctx.outputs

C10_Witness ==
  /\ run.pc = "raised"
  /\ Len(run.ordered) >= 2
  /\ run.i < Len(run.ordered)
  /\ HandlerFails(run, run.i)
  /\ <<run.ordered[run.i].id, run.ordered[run.i + 1].id>> \in ValidEdges(workflow)
  /\ run.ctx.logs[Len(run.ctx.logs)].status = "error"


(* The output map the handler of a node returns *)
HandlerOut(r, node) == RunNode(node, r.input_map, r.ctx).out

(* C11: a run without failure returns the outputs of every declared node   *)
(* and 2*N log entries: for the i-th scheduled node a "running" entry at   *)
(* 2i-1 and a "done" entry with its outputs at 2i; the nodes run in the    *)
(* order topo_sort returned                                                *)
C11_SuccessfulRun ==
  run.pc = "returned" =>
    LET body == run.response.body
        order == topo_sort(workflow).value
        n == Len(workflow.nodes)
    IN /\ run.response.status = 200
       /\ run.ordered = order
       /\ Len(order) = n
       /\ body.outputs = run.ctx.outputs
       /\ body.logs = run.ctx.logs
       /\ DOMAIN body.outputs = Declared(workflow)
       /\ Len(body.logs) = 2 * n
       /\ \A i \in 1..n :
            LET node == order[i]
            IN /\ body.outputs[node.id] = HandlerOut(run, node)
               /\ body.logs[2 * i - 1] =
                    [step |-> 2 * i - 1, node |-> node.id, type |-> node.type,
                     status |-> "running"]
               /\ body.logs[2 * i] =
                    [step |-> 2 * i, node |-> node.id, type |-> node.type,
                     status |-> "done", outputs |-> body.outputs[node.id]]

C11_Witness ==
  /\ run.pc = "returned"
  /\ Len(run.response.body.logs) = 4
  /\ \E e \in ValidEdges(workflow) : DeclPos(workflow, e[1]) > DeclPos(workflow, e[2])


(* The message of the failure that ends a raised run *)
FailureMessage(r) ==
  IF r.i = 0 THEN topo_sort(workflow).error
  ELSE IF r.ordered[r.i].type \notin NODE_RUNNERS
       THEN UnsupportedMsg(r.ordered[r.i].type)
       ELSE RunNode(r.ordered[r.i], r.input_map, r.ctx).error

(* C12: whatever the failure (graph error, type without handler, handler   *)
(* failure), the caller receives the error message and nothing else: no    *)
(* outputs and no logs, also when earlier nodes have completed             *)
C12_FailureExposesOnlyMessage ==
  /\ run.pc = "raised" =>
       run.response = [status |-> 400, body |-> EmptyDict,
                       detail |-> FailureMessage(run)]
  /\ \A h \in Range(history) :
       h.pc = "raised" => (h.response.body = EmptyDict /\ h.response.status = 400)

C12_Witness ==
  /\ run.pc = "raised"
  /\ run.i = 2
  /\ run.ctx.outputs # EmptyDict
  /\ Len(run.ctx.logs) >= 3
  /\ run.response.detail # GraphError


(* C13: for a graph with unique node ids topo_sort raises the graph error  *)
(* exactly when the valid edges contain a directed cycle, and an order it  *)
(* returns contains every declared node exactly once                       *)
C13_RaisesIffCycle ==
  (TopoDone /\ UniqueIds(workflow)) =>
     /\ tres.raised <=> HasCycle(workflow)
     /\ tres.raised => tres.error = GraphError
     /\ ~tres.raised =>
          /\ Len(tres.value) = Len(workflow.nodes)
          /\ Range(tres.value) = Range(workflow.nodes)
          /\ \A n \in Declared(workflow) :
               Cardinality({i \in 1..Len(tres.value) : tres.value[i].id = n}) = 1

C13_Witness ==
  /\ tpc = "raised"
  /\ UniqueIds(workflow)
  /\ HasCycle(workflow)
  /\ tst.ordered # <<>>
  /\ \A l \in Range(workflow.links) : l.from_node # l.to_node


(* The step counter of a context counts its log entries, and the k-th      *)
(* entry carries step k                                                    *)
StepsCountLogs(ctx) ==
  /\ ctx.step = Len(ctx.logs)
  /\ \A k \in 1..Len(ctx.logs) : ctx.logs[k].step = k

(* C14: in every state of a run the context's step equals the number of    *)
(* log entries and the k-th entry has step k: the steps run 1, 2, 3, ...   *)
(* over the whole run, are not reset per node and skip or repeat nothing   *)
C14_StepCounter ==
  /\ StepsCountLogs(run.ctx)
  /\ \A h \in Range(history) : StepsCountLogs(h.ctx)

C14_Witness ==
  /\ run.pc = "handler"
  /\ run.i = 2
  /\ run.ctx.step = 3
  /\ run.ctx.logs[3].status = "running"
  /\ run.ctx.logs[3].node # run.ctx.logs[1].node


(* The outputs hold exactly the nodes whose handler has returned: those at *)
(* the positions before the current one, each with the map it returned     *)
OutputsOfCompleted(r) ==
  /\ DOMAIN r.ctx.outputs = {r.ordered[k].id : k \in 1..(r.i - 1)}
  /\ \A k \in 1..(r.i - 1) :
       LET node == r.ordered[k]
       IN /\ node.type \in NODE_RUNNERS
          /\ ~RunNode(node, r.input_map, r.ctx).raised
          /\ r.ctx.outputs[node.id] = HandlerOut(r, node)
          /\ EntriesWith(r.ctx.logs, node.id, "done") # {}

(* A step of a run in progress keeps every entry of the outputs as it is *)
OutputsKept ==
  run.pc \in {"loop", "handler"} =>
    \A id \in DOMAIN run.ctx.outputs :
      /\ id \in DOMAIN run'.ctx.outputs
      /\ run'.ctx.outputs[id] = run.ctx.outputs[id]

(* C15: the outputs have an entry for a node only if its handler returned  *)
(* in this run (a node not yet run, running, failed or without handler has *)
(* none), and an entry is never removed or changed by a later node         *)
C15_OutputsOnlyOfCompleted ==
  /\ [](OutputsOfCompleted(run) /\ \A h \in Range(history) : OutputsOfCompleted(h))
  /\ [][OutputsKept]_vars

C15_Witness ==
  /\ run.pc = "raised"
  /\ run.i = 2
  /\ DOMAIN run.ctx.outputs = {run.ordered[1].id}
  /\ run.ordered[2].type \in NODE_RUNNERS
  /\ EntriesWith(run.ctx.logs, run.ordered[2].id, "error") # {}


(* The "running" entries among the first p log entries that no later entry *)
(* of the same node among them closes with "done" or "error"               *)
OpenAt(logs, p) ==
  {k \in 1..p :
     /\ logs[k].status = "running"
     /\ ~\E j \in (k + 1)..p :
          logs[j].node = logs[k].node /\ logs[j].status \in {"done", "error"}}

(* A handler that has started and not finished gets the next log entry *)
HandlerFinishesFirst ==
  run.pc = "handler" =>
    LET logs == run.ctx.logs
        next == run'.ctx.logs
    IN /\ Len(next) = Len(logs) + 1
       /\ SubSeq(next, 1, Len(logs)) = logs
       /\ next[Len(next)].node = run.ordered[run.i].id
       /\ next[Len(next)].status \in {"done", "error"}

(* C16: in every prefix of the log at most one node has a "running" entry  *)
(* without a later "done" or "error" entry, and it is the node of the      *)
(* prefix's last entry; no "running" entry is appended while the handler   *)
(* of another node has started and not finished                            *)
C16_StrictlySequential ==
  /\ [](\A p \in 0..Len(run.ctx.logs) : OpenAt(run.ctx.logs, p) \subseteq {p})
  /\ [](run.pc = "handler" => OpenAt(run.ctx.logs, Len(run.ctx.logs)) = {Len(run.ctx.logs)})
  /\ [][HandlerFinishesFirst]_vars

C16_Witness ==
  /\ run.pc = "handler"
  /\ run.i = 2
  /\ Len(run.ctx.logs) = 3
  /\ OpenAt(run.ctx.logs, 3) = {3}
  /\ OpenAt(run.ctx.logs, 2) = {}
  /\ OpenAt(run.ctx.logs, 1) = {1}


(* C18: when the handler of a node is invoked, every declared node that is *)
(* the source of a link to it has its entry in the outputs; so a bound     *)
(* port whose producer is declared and emits the bound port never resolves *)
(* to absent                                                               *)
C18_ProducersFirst ==
  run.pc = "handler" =>
    LET node == run.ordered[run.i]
        declared == Declared(workflow)
        ports == DictGet(run.input_map, node.id, EmptyDict)
    IN /\ \A l \in Range(workflow.links) :
            (l.to_node = node.id /\ l.from_node \in declared) =>
               l.from_node \in DOMAIN run.ctx.outputs
       /\ \A port \in DOMAIN ports :
            LET src == ports[port]
            IN (/\ src.from_node \in declared
                /\ src.from_port \in DOMAIN HandlerOut(run, NodesById(workflow.nodes)[src.from_node])) =>
                 /\ resolve_input(node.id, port, run.input_map, run.ctx) # NoneVal
                 /\ resolve_input(node.id, port, run.input_map, run.ctx) =
                      run.ctx.outputs[src.from_node][src.from_port]

C18_Witness ==
  /\ run.pc = "handler"
  /\ run.i = 2
  /\ LET node == run.ordered[2]
     IN /\ DeclPos(workflow, node.id) = 1
        /\ "text" \in DOMAIN DictGet(run.input_map, node.id, EmptyDict)
        /\ resolve_input(node.id, "text", run.input_map, run.ctx) = "hello"


(* Link i of wf is valid and a later link j, the last one to the same      *)
(* input port, comes from an undeclared node                               *)
DanglingOverrides(wf, i, j) ==
  /\ i < j
  /\ IsValidLink(wf, wf.links[i])
  /\ wf.links[j].from_node \notin Declared(wf)
  /\ SameTarget(wf.links[i], wf.links[j])
  /\ LastToSameTarget(wf, i) = j

(* C19: a link from an undeclared node is no edge for the scheduler but    *)
(* binds its target port; declared after a valid link to the same port it  *)
(* replaces that binding, and the port resolves to absent although the     *)
(* valid producer was scheduled first, ran and has its outputs stored      *)
C19_DanglingLinkOverridesBinding ==
  \A j \in 1..Len(workflow.links) : \A i \in 1..(j - 1) :
    DanglingOverrides(workflow, i, j) =>
      LET valid == workflow.links[i]
          dangling == workflow.links[j]
          n == valid.to_node
      IN /\ run.pc # "idle" =>
              run.input_map[n][valid.to_port] =
                [from_node |-> dangling.from_node, from_port |-> dangling.from_port]
         /\ Scheduled(run) =>
              /\ Before([value |-> run.ordered], valid.from_node, n)
              /\ Len(run.ordered) = Len(workflow.nodes)
         /\ (run.pc = "handler" /\ run.ordered[run.i].id = n) =>
              /\ valid.from_node \in DOMAIN run.ctx.outputs
              /\ resolve_input(n, valid.to_port, run.input_map, run.ctx) = NoneVal

C19_Witness ==
  /\ run.pc = "handler"
  /\ \E i \in 1..Len(workflow.links) : \E j \in 1..Len(workflow.links) :
       /\ DanglingOverrides(workflow, i, j)
       /\ run.ordered[run.i].id = workflow.links[i].to_node
       /\ LinkValue(run.ctx.outputs, workflow.links[i]) = "hello"
       /\ resolve_input(workflow.links[i].to_node, workflow.links[i].to_port,
                        run.input_map, run.ctx) = NoneVal


(* The node at position k of the order has run in full: its "running" and  *)
(* "done" entries are logged one after the other, its outputs are stored   *)
RanInFull(r, order, k) ==
  LET node == order[k]
      logs == r.ctx.logs
  IN /\ Len(logs) >= 2 * k
     /\ logs[2 * k - 1].node = node.id /\ logs[2 * k - 1].status = "running"
     /\ logs[2 * k].node = node.id /\ logs[2 * k].status = "done"
     /\ node.id \in DOMAIN r.ctx.outputs
     /\ r.ctx.outputs[node.id] = HandlerOut(r, node)

(* C20: a type without a handler is detected only when the executor        *)
(* reaches the node: the nodes before it in the order whose handlers do    *)
(* not fail are run in full first, the nodes after it never run            *)
C20_UnsupportedDetectedOnReach ==
  LET t == topo_sort(workflow)
      order == t.value
      bad == {k \in 1..Len(order) : order[k].type \notin NODE_RUNNERS}
  IN (/\ run.pc # "idle"
      /\ \E n \in Range(workflow.nodes) : n.type \notin NODE_RUNNERS
      /\ ~t.raised
      /\ bad # {}) =>
       LET k == CHOOSE b \in bad : \A c \in bad : b <= c
       IN (\A j \in 1..(k - 1) : ~RunNode(order[j], run.input_map, run.ctx).raised) =>
            /\ run.ordered = order
            /\ run.pc # "returned"
            /\ run.i <= k
            /\ \A j \in 1..(run.i - 1) : RanInFull(run, order, j)
            /\ run.pc = "raised" =>
                 /\ run.i = k
                 /\ run.response.detail = UnsupportedMsg(order[k].type)
                 /\ Len(run.ctx.logs) = 2 * k - 1
                 /\ \A j \in (k + 1)..Len(order) : EntriesOf(run.ctx.logs, order[j].id) = {}

C20_Witness ==
  /\ run.pc = "raised"
  /\ run.i = 2
  /\ Len(run.ordered) = 2
  /\ run.ordered[2].type \notin NODE_RUNNERS
  /\ RanInFull(run, run.ordered, 1)
  /\ run.response.detail = UnsupportedMsg(run.ordered[2].type)


----------------------------------------------------------------------------
(* Concurrent requests, checked under SpecConc *)

(* The next step of an execution that runs alone *)
SoloStep(wf, r) ==
  CASE r.pc = "idle" -> ExecBegin(wf)
    [] r.pc = "handler" -> ExecHandler(r)
    [] r.pc = "loop" /\ r.i <= Len(r.ordered) -> ExecRunning(r)
    [] r.pc = "loop" /\ r.i > Len(r.ordered) -> ExecReturn(r)
    [] OTHER -> r

(* The finished execution an execution ends in when it runs alone from r *)
RECURSIVE SoloRun(_, _)
SoloRun(wf, r) == IF RunDone(r) THEN r ELSE SoloRun(wf, SoloStep(wf, r))

(* The execution of request q logs its own nodes only, numbers its steps   *)
(* from 1 and ends as the execution of its workflow alone ends             *)
RunIsolated(q) ==
  LET wf == conc[q].wf
      r == conc[q].r
  IN /\ StepsCountLogs(r.ctx)
     /\ \A k \in 1..Len(r.ctx.logs) : r.ctx.logs[k].node \in Declared(wf)
     /\ DOMAIN r.ctx.outputs \subseteq Declared(wf)
     /\ SoloRun(wf, r) = SoloRun(wf, IdleRun)

(* A step changes the execution of one request only, and as that           *)
(* execution's own state determines                                        *)
OwnContextOnly ==
  \A q \in Requests :
    \/ conc'[q] = conc[q]
    \/ /\ conc'[q] = [conc[q] EXCEPT !.r = SoloStep(conc[q].wf, conc[q].r)]
       /\ \A p \in Requests \ {q} : conc'[p] = conc[p]

(* C17: of two requests served at the same time each execution logs only   *)
(* the nodes of its own graph with steps 1, 2, 3, ..., its outputs and     *)
(* logs are those it produces alone, and no step of one touches the        *)
(* context of the other                                                    *)
C17_ConcurrentRunsIsolated ==
  /\ [](\A q \in Requests : RunIsolated(q))
  /\ [][OwnContextOnly]_vars

C17_Witness ==
  /\ conc[1].r.pc = "handler"
  /\ conc[2].r.pc = "returned"
  /\ Len(conc[2].r.ctx.logs) = 4
  /\ Len(conc[1].r.ctx.logs) = 3
  /\ conc[1].r.ctx.logs[3].step = 3


----------------------------------------------------------------------------
(* Further scheduler properties, checked under SpecTopo *)

(* Link i of wf is followed by a link to the same input port, which        *)
(* replaces its binding                                                    *)
Overridden(wf, i) == LastToSameTarget(wf, i) > i

(* The workflow with the links only that keep their binding *)
ActiveOnly(wf) ==
  LET n == Len(wf.links)
      keep == {i \in 1..n : ~Overridden(wf, i)}
      pos == [k \in 1..Cardinality(keep) |->
                CHOOSE i \in keep : Cardinality({x \in keep : x < i}) = k - 1]
  IN [wf EXCEPT !.links = [k \in 1..Cardinality(keep) |-> wf.links[pos[k]]]]

(* C21: a link with both endpoints declared is an ordering edge also when  *)
(* a later link to the same input port replaces its binding: its target is *)
(* scheduled after its source, and when such a link closes a cycle         *)
(* topo_sort raises the graph error although the links that keep their     *)
(* binding are acyclic                                                     *)
C21_OverriddenLinksStillOrder ==
  TopoDone =>
    /\ \A i \in 1..Len(workflow.links) :
         (Overridden(workflow, i) /\ IsValidLink(workflow, workflow.links[i])) =>
            LET link == workflow.links[i]
                last == workflow.links[LastToSameTarget(workflow, i)]
            IN /\ build_input_map(workflow)[link.to_node][link.to_port] =
                    [from_node |-> last.from_node, from_port |-> last.from_port]
               /\ tpc = "returned" => Before(tres, link.from_node, link.to_node)
    /\ (HasCycle(workflow) /\ ~HasCycle(ActiveOnly(workflow))) =>
         (tres.raised /\ tres.error = GraphError)

C21_Witness ==
  /\ tpc = "raised"
  /\ UniqueIds(workflow)
  /\ HasCycle(workflow)
  /\ ~HasCycle(ActiveOnly(workflow))
  /\ tst.ordered # <<>>


----------------------------------------------------------------------------
(* Duplicate node ids, checked under Spec *)

(* C22: a workflow in which two declared nodes share an id is rejected     *)
(* with the graph error, also when it has no links, and no handler runs:   *)
(* the order holds distinct ids only, fewer than there are declared nodes  *)
C22_DuplicateIdsRejected ==
  (run.pc # "idle" /\ ~UniqueIds(workflow)) =>
     LET st == TopoLoop(TopoBegin(workflow))
     IN /\ Len(st.ordered) <= Cardinality(Declared(workflow))
        /\ Cardinality(Declared(workflow)) < Len(workflow.nodes)
        /\ topo_sort(workflow) = [raised |-> TRUE, error |-> GraphError, value |-> <<>>]
        /\ run.pc = "raised"
        /\ run.i = 0
        /\ run.response.detail = GraphError
        /\ NoBundle(run)
        /\ run.ctx.logs = <<>>
        /\ run.ctx.outputs = EmptyDict
        /\ files = EmptyDict

C22_Witness ==
  /\ run.pc = "raised"
  /\ run.response.detail = GraphError
  /\ Len(workflow.nodes) = 2
  /\ ~UniqueIds(workflow)
  /\ workflow.links = <<>>
  /\ workflow.nodes[1].type \in NODE_RUNNERS


----------------------------------------------------------------------------
(* Termination of the scheduling loop, checked under SpecTopoFair *)

(* The ids put in the queue so far, in the order they were put in: those   *)
(* taken out again (ordered) and those still waiting (q)                   *)
Enqueued == tst.ordered \o tst.q

NoRepeat(seq) == \A a \in 1..Len(seq) : \A b \in 1..Len(seq) : seq[a] = seq[b] => a = b

(* Each id is enqueued and dequeued at most once, no in-degree is          *)
(* negative, and what was enqueued has in-degree zero                      *)
QueueDiscipline ==
  tpc # "idle" /\ tpc # "start" =>
    /\ NoRepeat(Enqueued)
    /\ NoRepeat(tst.ordered)
    /\ Len(Enqueued) <= Cardinality(Declared(workflow))
    /\ \A k \in DOMAIN tst.indeg : tst.indeg[k] >= 0
    /\ \A k \in 1..Len(Enqueued) : tst.indeg[Enqueued[k]] = 0

(* An iteration of the loop takes one id out of the queue for good *)
LoopAdvances ==
  (tpc = "loop" /\ tpc' = "loop") =>
    /\ Len(tst'.ordered) = Len(tst.ordered) + 1
    /\ SubSeq(tst'.ordered, 1, Len(tst.ordered)) = tst.ordered

(* C23: the scheduling loop terminates for every graph (cyclic, with       *)
(* self-links, parallel links, dangling links): each id is enqueued and    *)
(* dequeued at most once, no in-degree becomes negative, and no node is    *)
(* enqueued while its in-degree is above zero                              *)
C23_LoopTerminates ==
  /\ []QueueDiscipline
  /\ [][LoopAdvances]_vars
  /\ <>TopoDone

C23_Witness ==
  /\ tpc = "returned"
  /\ Len(workflow.links) = 2
  /\ workflow.links[1] = workflow.links[2]
  /\ IsValidLink(workflow, workflow.links[1])
  /\ Len(tst.ordered) >= 2

====
